---- MODULE Spec2Model ----
(***************************************************************************)
(* A state-machine model of RoofTopProgram.ino: setup() followed by the    *)
(* Arduino core calling loop() forever.  The state is the position of the  *)
(* single thread of control, the locals of setup()/loop(), the files on    *)
(* the SD card, the open File objects, the lines printed on the serial     *)
(* transports, and the hardware the sketch talks to (RTC, sensors).        *)
(***************************************************************************)
EXTENDS Integers, Sequences, FiniteSets, TLC

VARIABLES
    pc,          \* position of the thread of control
    rtcPresent,  \* hardware: rtc.begin() finds the DS1307
    rtcRunning,  \* hardware: rtc.isrunning()
    clock,       \* hardware: index in ClockTable of the instant rtc.now() returns
    cardFresh,   \* hardware: the card was empty at power-on
    sdReady,     \* SD library: SD.begin(10) succeeded in this boot
    files,       \* SD card: file name -> sequence of lines
    openCount,   \* SD library: number of files open
    logFile,     \* local File logFile (setup and loop)
    now,         \* local DateTime now (setup and loop)
    fileName,    \* local String fileName (setup and loop)
    uv,          \* local uv_light.uvindex, in hundredths
    temp,        \* local temp.t, in hundredths
    lum,         \* local luminosity.lux, in hundredths
    tempF,       \* local tempF, in hundredths
    dataString,  \* local String dataString
    begun,       \* sensor channels whose begin...() was called in this boot
    beginFailed, \* sensor channels whose begin...() reported failure
    readFailed,  \* sensor channels whose read...() failed for the record being built
    bootLog,     \* lines printed during setup() of this boot
    cycleLog,    \* lines printed during the current cycle of loop()
    appended,    \* a line was written to the card in this cycle
    created,     \* file name -> the date (triple) of the open that created it
    waitMs       \* argument of the delay() in progress, 0 outside delay()

vars == <<pc, rtcPresent, rtcRunning, clock, cardFresh, sdReady, files, openCount, logFile, now,
          fileName, uv, temp, lum, tempF, dataString, begun, beginFailed,
          readFailed, bootLog, cycleLog, appended, created, waitMs>>

hw == <<rtcPresent, rtcRunning, clock, cardFresh>>
locals == <<logFile, now, fileName, uv, temp, lum, tempF, dataString>>
sensors == <<begun, beginFailed, readFailed>>

(***************************************************************************)
(* Bounds of the model.                                                    *)
(***************************************************************************)
\* capacity of the card, in lines: an open fails once the card is full
MaxLines == 2

(***************************************************************************)
(* Program constants.                                                      *)
(***************************************************************************)
READ_INTERVAL == 1000


Header == "Time,UV,IR,Lum"
Channels == {"UV", "IR", "Lum"}

\* the value of a String, DateTime or File local that holds nothing yet
NoString == ""
NoFile == [open |-> FALSE, name |-> "", written |-> 0]
NoTime == [year |-> 0, month |-> 0, day |-> 0, hour |-> 0, minute |-> 0, second |-> 0]

(***************************************************************************)
(* The instants the RTC shows, in chronological order: the last second of  *)
(* a day and the midnight after it.                                        *)
(***************************************************************************)
DT(y, mo, d, h, mi, s) ==
    [year |-> y, month |-> mo, day |-> d, hour |-> h, minute |-> mi, second |-> s]

ClockTable ==
    << DT(2009, 1, 11, 23, 59, 59),
       DT(2009, 1, 12, 0, 0, 0) >>

\* what a sensor channel can deliver, in hundredths of its unit
RawValues(ch) ==
    CASE ch = "UV"  -> {100}
      [] ch = "IR"  -> {2500}
      [] ch = "Lum" -> {40000}

\* what the struct a read...() was given can hold after a failed read: the
\* local is not initialised and loop() looks at no result of the read
Indeterminate(ch) == RawValues(ch) \cup {0}

(***************************************************************************)
(* Arduino String conversions.                                             *)
(***************************************************************************)
Digit(d) == SubSeq("0123456789", d + 1, d + 1)

RECURSIVE DecStr(_)
\* String(n, DEC) of a non-negative integer
DecStr(n) == IF n < 10 THEN Digit(n) ELSE DecStr(n \div 10) \o Digit(n % 10)

Abs(x) == IF x < 0 THEN -x ELSE x

\* String(float): two decimals; the value is held in hundredths
FloatStr(h) ==
    (IF h < 0 THEN "-" ELSE "") \o DecStr(Abs(h) \div 100) \o "."
        \o Digit((Abs(h) \div 10) % 10) \o Digit(Abs(h) % 10)

\* String::remove(index, count)
Remove(str, index, count) ==
    SubSeq(str, 1, index) \o SubSeq(str, index + count + 1, Len(str))

\* currentYear: String(now.year(), DEC) with remove(0,2)
CurrentYear(t) == Remove(DecStr(t.year), 0, 2)

\* setup(): fileName
SetupFileName(t) ==
    DecStr(t.month) \o "-" \o DecStr(t.day) \o "-" \o CurrentYear(t)

\* mutant: month and day padded to two digits
LoopFileName_Padded(t) ==
    (IF t.month < 10 THEN "0" ELSE "") \o DecStr(t.month) \o "-"
        \o (IF t.day < 10 THEN "0" ELSE "") \o DecStr(t.day) \o "-" \o CurrentYear(t)

\* loop(): fileName
LoopFileName(t) ==
    DecStr(t.month) \o "-" \o DecStr(t.day) \o "-" \o CurrentYear(t)

\* loop(): timeStamp
TimeStamp(t) ==
    DecStr(t.hour) \o ":" \o DecStr(t.minute) \o ":" \o DecStr(t.second)

\* loop(): tempF = ((temp.t * 9) / 5) + 32, on hundredths
ToFahrenheit(t) == ((t * 9) \div 5) + 3200

\* loop(): dataString
DataString(t, u, f, l) ==
    TimeStamp(t) \o "," \o FloatStr(u) \o "," \o FloatStr(f) \o "," \o FloatStr(l)

CsvName(name) == name \o ".csv"

\* the (month, day, year) of a DateTime
DateOf(t) == <<t.month, t.day, t.year>>

(***************************************************************************)
(* The SD card and the serial transports.                                  *)
(***************************************************************************)
Exists(name) == name \in DOMAIN files

RECURSIVE SumLen(_, _)
SumLen(fs, names) ==
    IF names = {} THEN 0
    ELSE LET n == CHOOSE x \in names : TRUE
         IN Len(fs[n]) + SumLen(fs, names \ {n})

\* lines held by the card
TotalLines == SumLen(files, DOMAIN files)
CardFull == TotalLines >= MaxLines

\* SD.open(name, FILE_WRITE) creates a missing file, empty
Opened(name) == IF Exists(name) THEN files ELSE files @@ (name :> <<>>)

\* File::println(line), positioned at the end of the file
Written(name, line) == [files EXCEPT ![name] = Append(@, line)]

\* Serial is the hardware port; mySerial (ArdusatSerial in
\* SERIAL_MODE_HARDWARE_AND_SOFTWARE) writes to both ports
Out(sink, text) == [sink |-> sink, text |-> text]
Primary(log) == log
Texts(log) == {log[i].text : i \in 1..Len(log)}

(***************************************************************************)
(* Power-on.  The card is empty, or holds the file an earlier boot of the  *)
(* same day created for that day with its header.                          *)
(***************************************************************************)
InitCards(t) == { << >>, CsvName(SetupFileName(t)) :> << Header >> }

Init ==
    /\ pc = "setup_rtc"
    /\ rtcPresent \in BOOLEAN
    /\ rtcRunning \in BOOLEAN
    /\ clock \in 1..Len(ClockTable)
    /\ sdReady = FALSE
    /\ files \in InitCards(ClockTable[clock])
    /\ cardFresh = (DOMAIN files = {})
    /\ openCount = 0
    /\ logFile = NoFile
    /\ now = NoTime
    /\ fileName = NoString
    /\ uv = 0 /\ temp = 0 /\ lum = 0 /\ tempF = 0
    /\ dataString = NoString
    /\ begun = {} /\ beginFailed = {} /\ readFailed = {}
    /\ bootLog = << >> /\ cycleLog = << >>
    /\ appended = FALSE
    /\ created = [n \in DOMAIN files |-> DateOf(ClockTable[clock])]
    /\ waitMs = 0

\* the locals of a function that has returned
LocalsGone ==
    /\ logFile' = NoFile
    /\ now' = NoTime
    /\ fileName' = NoString
    /\ uv' = 0 /\ temp' = 0 /\ lum' = 0 /\ tempF' = 0
    /\ dataString' = NoString

(***************************************************************************)
(* setup()                                                                 *)
(***************************************************************************)
\* mutant: the missing clock is reported and setup() goes on
SetupRtc_NoHalt ==
    /\ pc = "setup_rtc"
    /\ pc' = "setup_running"
    /\ bootLog' = IF rtcPresent THEN bootLog
                  ELSE Append(bootLog, Out("Serial", "Couldn't find RTC"))
    /\ UNCHANGED <<hw, sdReady, files, openCount, locals, sensors, cycleLog,
                   appended, created, waitMs>>

\* mySerial.begin(9600); if (!rtc.begin()) { Serial.println(...); while (1); }
SetupRtc ==
    /\ pc = "setup_rtc"
    /\ IF rtcPresent
       THEN /\ pc' = "setup_running"
            /\ UNCHANGED bootLog
       ELSE /\ pc' = "halt"
            /\ bootLog' = Append(bootLog, Out("Serial", "Couldn't find RTC"))
    /\ UNCHANGED <<hw, sdReady, files, openCount, locals, sensors, cycleLog,
                   appended, created, waitMs>>

\* while (1);
Halt ==
    /\ pc = "halt"
    /\ UNCHANGED vars

\* if (!rtc.isrunning()) Serial.println("RTC is NOT running!");
SetupRunning ==
    /\ pc = "setup_running"
    /\ bootLog' = IF rtcRunning THEN bootLog
                  ELSE Append(bootLog, Out("Serial", "RTC is NOT running!"))
    /\ pc' = "setup_sensors"
    /\ UNCHANGED <<hw, sdReady, files, openCount, locals, sensors, cycleLog,
                   appended, created, waitMs>>

\* beginInfraredTemperatureSensor(); beginLuminositySensor();
\* beginUVLightSensor(); pinMode(...): the results of begin are dropped
SetupSensors ==
    /\ pc = "setup_sensors"
    /\ \E failed \in SUBSET Channels :
          /\ begun' = Channels
          /\ beginFailed' = failed
    /\ pc' = "setup_sd"
    /\ UNCHANGED <<hw, sdReady, files, openCount, locals, readFailed, bootLog,
                   cycleLog, appended, created, waitMs>>

\* mutant: a card that does not start stops the sketch
SetupSD_Halts ==
    /\ pc = "setup_sd"
    /\ \E ok \in BOOLEAN :
          /\ sdReady' = ok
          /\ IF ok
             THEN /\ bootLog' = Append(bootLog, Out("Serial", "Initializing SD card..."))
                  /\ pc' = "setup_name"
             ELSE /\ bootLog' = bootLog \o << Out("Serial", "Initializing SD card..."),
                                             Out("Serial", "initialization failed!") >>
                  /\ pc' = "halt"
    /\ UNCHANGED <<hw, files, openCount, locals, sensors, cycleLog, appended,
                   created, waitMs>>

\* Serial.print("Initializing SD card..."); if (!SD.begin(10)) { ...; return; }
SetupSD ==
    /\ pc = "setup_sd"
    /\ \E ok \in BOOLEAN :
          /\ sdReady' = ok
          /\ IF ok
             THEN /\ bootLog' = Append(bootLog, Out("Serial", "Initializing SD card..."))
                  /\ pc' = "setup_name"
             ELSE /\ bootLog' = bootLog \o << Out("Serial", "Initializing SD card..."),
                                             Out("Serial", "initialization failed!") >>
                  /\ pc' = "setup_done"
    /\ UNCHANGED <<hw, files, openCount, locals, sensors, cycleLog, appended,
                   created, waitMs>>

\* mySerial.println(...) three times; now = rtc.now(); currentYear; fileName
SetupName ==
    /\ pc = "setup_name"
    /\ bootLog' = bootLog \o << Out("mySerial", ""), Out("mySerial", ""),
                                Out("mySerial", "===Initialized===") >>
    /\ now' = ClockTable[clock]
    /\ fileName' = SetupFileName(ClockTable[clock])
    /\ pc' = "setup_exists"
    /\ UNCHANGED <<hw, sdReady, files, openCount, logFile, uv, temp, lum, tempF,
                   dataString, sensors, cycleLog, appended, created, waitMs>>

\* mutant: the header is written without looking for the file
SetupExists_Always ==
    /\ pc = "setup_exists"
    /\ pc' = "setup_open"
    /\ bootLog' = Append(bootLog, Out("mySerial", fileName))
    /\ UNCHANGED <<hw, sdReady, files, openCount, locals, sensors, cycleLog,
                   appended, created, waitMs>>

\* if (!SD.exists(String(fileName) + ".csv")) { mySerial.println(fileName); ...
SetupExists ==
    /\ pc = "setup_exists"
    /\ IF Exists(CsvName(fileName))
       THEN /\ pc' = "setup_done"
            /\ UNCHANGED <<bootLog, locals>>
       ELSE /\ pc' = "setup_open"
            /\ bootLog' = Append(bootLog, Out("mySerial", fileName))
            /\ UNCHANGED locals
    /\ UNCHANGED <<hw, sdReady, files, openCount, sensors, cycleLog, appended,
                   created, waitMs>>

\* SD.open(name, FILE_WRITE): fails on a card that is not ready or is full,
\* and may fail on any call; creates a missing file
Open(name, ok) ==
    /\ ok => (sdReady /\ ~CardFull)
    /\ IF ok
       THEN /\ files' = Opened(name)
            /\ created' = IF Exists(name) THEN created
                          ELSE created @@ (name :> DateOf(now))
            /\ openCount' = openCount + 1
            /\ logFile' = [open |-> TRUE, name |-> name, written |-> 0]
       ELSE /\ UNCHANGED <<files, created, openCount>>
            /\ logFile' = NoFile

\* logFile.println(line)
Println(line) ==
    /\ files' = Written(logFile.name, line)
    /\ logFile' = [logFile EXCEPT !.written = @ + 1]

\* logFile.close()
Close ==
    /\ openCount' = openCount - 1
    /\ logFile' = [logFile EXCEPT !.open = FALSE]

\* File logFile = SD.open(String(fileName) + ".csv", FILE_WRITE); if (logFile)
SetupOpen ==
    /\ pc = "setup_open"
    /\ \E ok \in BOOLEAN :
          /\ Open(CsvName(fileName), ok)
          /\ pc' = IF ok THEN "setup_write" ELSE "setup_fail"
    /\ UNCHANGED <<hw, sdReady, now, fileName, uv, temp, lum, tempF, dataString,
                   sensors, bootLog, cycleLog, appended, waitMs>>

\* logFile.println("Time,UV,IR,Lum");
SetupWrite ==
    /\ pc = "setup_write"
    /\ Println(Header)
    /\ pc' = "setup_close"
    /\ UNCHANGED <<hw, sdReady, openCount, now, fileName, uv, temp, lum, tempF,
                   dataString, sensors, bootLog, cycleLog, appended, created,
                   waitMs>>

\* logFile.close();
SetupClose ==
    /\ pc = "setup_close"
    /\ Close
    /\ pc' = "setup_print"
    /\ UNCHANGED <<hw, sdReady, files, now, fileName, uv, temp, lum, tempF,
                   dataString, sensors, bootLog, cycleLog, appended, created,
                   waitMs>>

\* Serial.println("Time,UV,IR,Lum");
SetupPrint ==
    /\ pc = "setup_print"
    /\ bootLog' = Append(bootLog, Out("Serial", Header))
    /\ pc' = "setup_done"
    /\ UNCHANGED <<hw, sdReady, files, openCount, locals, sensors, cycleLog,
                   appended, created, waitMs>>

\* else Serial.println("Couldn't access file");
SetupFail ==
    /\ pc = "setup_fail"
    /\ bootLog' = Append(bootLog, Out("Serial", "Couldn't access file"))
    /\ pc' = "setup_done"
    /\ UNCHANGED <<hw, sdReady, files, openCount, locals, sensors, cycleLog,
                   appended, created, waitMs>>

\* setup() returns and the core calls loop(); what setup() printed and how
\* the sensors started is not looked at again
SetupReturn ==
    /\ pc = "setup_done"
    /\ pc' = "loop_clock"
    /\ LocalsGone
    /\ beginFailed' = {}
    /\ bootLog' = << >>
    /\ UNCHANGED <<hw, sdReady, files, openCount, begun, readFailed, cycleLog,
                   appended, created, waitMs>>

(***************************************************************************)
(* loop()                                                                  *)
(***************************************************************************)
\* DateTime now = rtc.now(); timeStamp; currentYear
LoopClock ==
    /\ pc = "loop_clock"
    /\ now' = ClockTable[clock]
    /\ pc' = "loop_uv"
    /\ UNCHANGED <<hw, sdReady, files, openCount, logFile, fileName, uv, temp,
                   lum, tempF, dataString, sensors, bootLog, cycleLog, appended,
                   created, waitMs>>

\* read...(out): a read that works stores a measurement, one that fails
\* leaves the struct indeterminate
Read(ch, ok, v) ==
    /\ v \in (IF ok THEN RawValues(ch) ELSE Indeterminate(ch))
    /\ readFailed' = IF ok THEN readFailed ELSE readFailed \cup {ch}

\* readUVLight(uv_light);
LoopUV ==
    /\ pc = "loop_uv"
    /\ \E ok \in BOOLEAN : \E v \in Indeterminate("UV") :
          /\ Read("UV", ok, v)
          /\ uv' = v
    /\ pc' = "loop_ir"
    /\ UNCHANGED <<hw, sdReady, files, openCount, logFile, now, fileName, temp,
                   lum, tempF, dataString, begun, beginFailed, bootLog, cycleLog,
                   appended, created, waitMs>>

\* readInfraredTemperature(temp); tempF = ((temp.t * 9) / 5) + 32;
LoopIR ==
    /\ pc = "loop_ir"
    /\ \E ok \in BOOLEAN : \E v \in Indeterminate("IR") :
          /\ Read("IR", ok, v)
          /\ temp' = v
          /\ tempF' = ToFahrenheit(v)
    /\ pc' = "loop_lum"
    /\ UNCHANGED <<hw, sdReady, files, openCount, logFile, now, fileName, uv,
                   lum, dataString, begun, beginFailed, bootLog, cycleLog,
                   appended, created, waitMs>>

\* readLuminosity(luminosity);
LoopLum ==
    /\ pc = "loop_lum"
    /\ \E ok \in BOOLEAN : \E v \in Indeterminate("Lum") :
          /\ Read("Lum", ok, v)
          /\ lum' = v
    /\ pc' = "loop_format"
    /\ UNCHANGED <<hw, sdReady, files, openCount, logFile, now, fileName, uv,
                   temp, tempF, dataString, begun, beginFailed, bootLog, cycleLog,
                   appended, created, waitMs>>

\* String dataString = ...; String fileName = ...;
LoopFormat ==
    /\ pc = "loop_format"
    /\ dataString' = DataString(now, uv, tempF, lum)
    /\ fileName' = LoopFileName(now)
    /\ pc' = "loop_open"
    /\ UNCHANGED <<hw, sdReady, files, openCount, logFile, now, uv, temp, lum,
                   tempF, sensors, bootLog, cycleLog, appended, created, waitMs>>

\* File logFile = SD.open(String(fileName) + ".csv", FILE_WRITE); if (logFile)
LoopOpen ==
    /\ pc = "loop_open"
    /\ \E ok \in BOOLEAN :
          /\ Open(CsvName(fileName), ok)
          /\ pc' = IF ok THEN "loop_write" ELSE "loop_fail"
    /\ readFailed' = {}
    /\ UNCHANGED <<hw, sdReady, now, fileName, uv, temp, lum, tempF, dataString,
                   begun, beginFailed, bootLog, cycleLog, appended, waitMs>>

\* logFile.println(dataString);
LoopWrite ==
    /\ pc = "loop_write"
    /\ Println(dataString)
    /\ appended' = TRUE
    /\ pc' = "loop_close"
    /\ UNCHANGED <<hw, sdReady, openCount, now, fileName, uv, temp, lum, tempF,
                   dataString, sensors, bootLog, cycleLog, created, waitMs>>

\* mutant: the file is left open
LoopClose_Leak ==
    /\ pc = "loop_close"
    /\ pc' = "loop_mirror"
    /\ UNCHANGED <<hw, sdReady, files, openCount, locals, sensors, bootLog,
                   cycleLog, appended, created, waitMs>>

\* logFile.close();
LoopClose ==
    /\ pc = "loop_close"
    /\ Close
    /\ pc' = "loop_mirror"
    /\ UNCHANGED <<hw, sdReady, files, now, fileName, uv, temp, lum, tempF,
                   dataString, sensors, bootLog, cycleLog, appended, created,
                   waitMs>>

\* mySerial.println(dataString);
LoopMirror ==
    /\ pc = "loop_mirror"
    /\ cycleLog' = Append(cycleLog, Out("mySerial", dataString))
    /\ pc' = "loop_delay"
    /\ UNCHANGED <<hw, sdReady, files, openCount, locals, sensors, bootLog,
                   appended, created, waitMs>>

\* mutant: the open is tried again
LoopFail_Retry ==
    /\ pc = "loop_fail"
    /\ cycleLog' = Append(cycleLog, Out("mySerial", "Couldn't access file"))
    /\ pc' = "loop_open"
    /\ UNCHANGED <<hw, sdReady, files, openCount, locals, sensors, bootLog,
                   appended, created, waitMs>>

\* mutant: the record is mirrored though it was not written
LoopFail_Mirror ==
    /\ pc = "loop_fail"
    /\ cycleLog' = Append(cycleLog, Out("mySerial", dataString))
    /\ pc' = "loop_delay"
    /\ UNCHANGED <<hw, sdReady, files, openCount, locals, sensors, bootLog,
                   appended, created, waitMs>>

\* else mySerial.println("Couldn't access file");
LoopFail ==
    /\ pc = "loop_fail"
    /\ cycleLog' = Append(cycleLog, Out("mySerial", "Couldn't access file"))
    /\ pc' = "loop_delay"
    /\ UNCHANGED <<hw, sdReady, files, openCount, locals, sensors, bootLog,
                   appended, created, waitMs>>

\* delay(READ_INTERVAL): the call
LoopDelay ==
    /\ pc = "loop_delay"
    /\ waitMs' = READ_INTERVAL
    /\ pc' = "delaying"
    /\ UNCHANGED <<hw, sdReady, files, openCount, locals, sensors, bootLog,
                   cycleLog, appended, created>>

\* delay() and loop() return, and the core calls loop() again
LoopReturn ==
    /\ pc = "delaying"
    /\ waitMs' = 0
    /\ pc' = "loop_clock"
    /\ LocalsGone
    /\ cycleLog' = << >>
    /\ appended' = FALSE
    /\ UNCHANGED <<hw, sdReady, files, openCount, sensors, bootLog, created>>

(***************************************************************************)
(* The environment: time passes on a running RTC; the board is reset.      *)
(***************************************************************************)
Tick ==
    /\ rtcRunning
    /\ clock < Len(ClockTable)
    /\ clock' = clock + 1
    /\ UNCHANGED <<pc, rtcPresent, rtcRunning, cardFresh, sdReady, files, openCount, locals,
                   sensors, bootLog, cycleLog, appended, created, waitMs>>

\* reset or power cycle: the RAM is lost, the card and the RTC are kept
Reset ==
    /\ pc' = "setup_rtc"
    /\ sdReady' = FALSE
    /\ openCount' = 0
    /\ LocalsGone
    /\ begun' = {} /\ beginFailed' = {} /\ readFailed' = {}
    /\ bootLog' = << >> /\ cycleLog' = << >>
    /\ appended' = FALSE
    /\ waitMs' = 0
    /\ UNCHANGED <<hw, files, created>>

\* the steps of the sketch
Program ==
    \/ SetupRtc \/ Halt \/ SetupRunning \/ SetupSensors \/ SetupSD
    \/ SetupName \/ SetupExists \/ SetupOpen \/ SetupWrite \/ SetupClose
    \/ SetupPrint \/ SetupFail \/ SetupReturn
    \/ LoopClock \/ LoopUV \/ LoopIR \/ LoopLum \/ LoopFormat \/ LoopOpen
    \/ LoopWrite \/ LoopClose \/ LoopMirror \/ LoopFail \/ LoopDelay
    \/ LoopReturn

Next == Program \/ Tick \/ Reset

\* any number of boots of the board
Spec == Init /\ [][Next]_vars

\* one boot: the board is powered and is not reset, and the processor never
\* stops executing the sketch
Run == Program \/ Tick
LiveSpec == Init /\ [][Run]_vars /\ WF_vars(Program)

InSetup == pc \in {"setup_rtc", "setup_running", "setup_sensors", "setup_sd",
                   "setup_name", "setup_exists", "setup_open", "setup_write",
                   "setup_close", "setup_print", "setup_fail", "setup_done"}
InLoop == pc \in {"loop_clock", "loop_uv", "loop_ir", "loop_lum", "loop_format",
                  "loop_open", "loop_write", "loop_close", "loop_mirror",
                  "loop_fail", "loop_delay", "delaying"}

(***************************************************************************)
(* What the claims speak of.                                               *)
(***************************************************************************)
\* the file identity as the specification writes it: "{month}-{day}-{yy}",
\* no padding of month and day, yy the last two digits of the year
TwoDigits(n) == IF n < 10 THEN "0" \o ToString(n) ELSE ToString(n)
FileId(t) ==
    ToString(t.month) \o "-" \o ToString(t.day) \o "-" \o TwoDigits(t.year % 100)
IdTriple(t) == <<t.month, t.day, t.year % 100>>

\* dates of the years the DS1307 counts
SampleTimes ==
    { DT(y, m, d, 0, 0, 0) : y \in {2000, 2009, 2016, 2099},
                             m \in {1, 2, 11, 12}, d \in {1, 2, 11, 12, 21} }

HeaderCount(lines) == Cardinality({i \in 1..Len(lines) : lines[i] = Header})
DataCount(lines) == Cardinality({i \in 1..Len(lines) : lines[i] # Header})
IsPrefix(a, b) == Len(a) <= Len(b) /\ SubSeq(b, 1, Len(a)) = a

\* a text that is a decimal number
IsNumeric(str) ==
    /\ Len(str) > 0
    /\ \A i \in 1..Len(str) :
          SubSeq(str, i, i) \in {"0", "1", "2", "3", "4", "5", "6", "7", "8", "9", ".", "-"}

\* the field of a channel in the record being built
Field(ch) ==
    CASE ch = "UV"  -> FloatStr(uv)
      [] ch = "IR"  -> FloatStr(tempF)
      [] ch = "Lum" -> FloatStr(lum)

\* what setup() prints about the clock, the card and the day's file
OtherTexts ==
    { "Couldn't find RTC", "RTC is NOT running!", "Initializing SD card...",
      "initialization failed!", "", "===Initialized===", Header,
      "Couldn't access file" }
        \cup { SetupFileName(ClockTable[i]) : i \in 1..Len(ClockTable) }

AccessDiagnostic == Out("mySerial", "Couldn't access file")

(***************************************************************************)
(* C1: on a card that was empty at power-on, every file that holds data    *)
(* lines starts with the one header line and holds one line more than the  *)
(* appends it received.                                                    *)
(***************************************************************************)
HeaderOnce ==
    cardFresh => \A f \in DOMAIN files :
        DataCount(files[f]) >= 1 =>
            /\ files[f][1] = Header
            /\ Len(files[f]) = DataCount(files[f]) + 1

(***************************************************************************)
(* C2: with no clock device, the boot ends in the halting loop and stays   *)
(* there; nothing is created or appended on the card, no sensor is started *)
(* or read, and loop() is never entered.                                   *)
(***************************************************************************)
BootHalt ==
    /\ [](~rtcPresent =>
            /\ pc \in {"setup_rtc", "halt"}
            /\ begun = {} /\ readFailed = {}
            /\ openCount = 0 /\ cycleLog = << >> /\ ~sdReady)
    /\ [][~rtcPresent => (files' = files /\ created' = created)]_vars
    /\ [][pc = "halt" => pc' = "halt"]_vars
    /\ [](~rtcPresent => <>(pc = "halt"))

BootHaltWitness ==
    /\ ~rtcPresent /\ pc = "halt"
    /\ bootLog = << Out("Serial", "Couldn't find RTC") >>

(***************************************************************************)
(* C3: a cycle whose open fails leaves the card as it was, prints the      *)
(* diagnostic on the dual sink, goes through delay(1000) and on to the     *)
(* next cycle, which starts with no record kept.                           *)
(***************************************************************************)
FailedCycle ==
    \/ pc = "loop_open" /\ pc' = "loop_fail"
    \/ pc \in {"loop_fail", "loop_delay", "delaying"} /\ ~appended

AppendFailureDropsRecord ==
    /\ [][FailedCycle => files' = files]_vars
    /\ [][(pc = "loop_fail" /\ pc' # pc) =>
            (pc' = "loop_delay" /\ cycleLog' = << AccessDiagnostic >>)]_vars
    /\ [][(pc = "loop_delay" /\ pc' # pc) =>
            (pc' = "delaying" /\ waitMs' = 1000)]_vars
    /\ [][(pc = "delaying" /\ pc' # pc) =>
            (pc' = "loop_clock" /\ dataString' = NoString /\ logFile' = NoFile)]_vars
    /\ [](pc \in {"loop_clock", "loop_uv", "loop_ir", "loop_lum", "loop_format"}
            => (dataString = NoString /\ ~appended))
    /\ [](pc \in {"loop_open", "loop_write"}
            => dataString = DataString(now, uv, tempF, lum))
    /\ ((pc = "loop_fail") ~> (pc = "loop_clock"))

AppendFailureWitness ==
    /\ pc = "delaying" /\ ~appended /\ waitMs = 1000
    /\ sdReady /\ ~CardFull
    /\ cycleLog = << AccessDiagnostic >>

(***************************************************************************)
(* C4: the field of a channel whose read failed is not a number computed   *)
(* from what the failed read left behind.                                  *)
(***************************************************************************)
ReadFailurePropagates ==
    pc = "loop_open" => \A ch \in readFailed : ~IsNumeric(Field(ch))

(***************************************************************************)
(* C5: the file identity is "{month}-{day}-{yy}"; two identities are equal *)
(* exactly when month, day and the last two digits of the year are; setup  *)
(* and loop compute the same identity for the same date.                   *)
(***************************************************************************)
NamesInjective ==
    \A t1 \in SampleTimes : \A t2 \in SampleTimes :
        /\ SetupFileName(t1) = FileId(t1)
        /\ LoopFileName(t1) = FileId(t1)
        /\ (SetupFileName(t1) = LoopFileName(t2)) <=> (IdTriple(t1) = IdTriple(t2))

FilenameDeterminism ==
    /\ NamesInjective
    /\ pc \in {"setup_exists", "setup_open", "setup_write", "setup_close",
               "setup_print", "setup_fail", "loop_open", "loop_write",
               "loop_close", "loop_mirror", "loop_fail", "loop_delay", "delaying"}
          => fileName = FileId(now)
    /\ \A f \in DOMAIN created :
          \A i \in 1..Len(ClockTable) :
              (f = CsvName(FileId(ClockTable[i])))
                  <=> (IdTriple(ClockTable[i]) = <<created[f][1], created[f][2], created[f][3] % 100>>)

FilenameWitness ==
    /\ pc = "loop_write" /\ fileName = "1-12-09"
    /\ DOMAIN files = {"1-11-09.csv", "1-12-09.csv"}

(***************************************************************************)
(* C6: with the clock device present the boot reaches the poll loop and    *)
(* the loop reaches its delay again and again, whatever failed in setup.   *)
(***************************************************************************)
OnlyMissingClockStops ==
    /\ (rtcPresent /\ InSetup) ~> (pc = "loop_clock")
    /\ [](rtcPresent => <>(pc = "delaying" /\ waitMs = 1000))

DegradedBootWitness ==
    /\ rtcPresent /\ ~rtcRunning /\ ~sdReady
    /\ pc = "delaying"

(***************************************************************************)
(* C7: at most one file is open; a file that was opened is closed after    *)
(* exactly one line was written to it; no file is open when setup() has    *)
(* finished or during the delay.                                           *)
(***************************************************************************)
HandleDiscipline ==
    /\ [](openCount <= 1 /\ (logFile.open <=> openCount = 1))
    /\ [](pc \in {"setup_done", "loop_clock", "loop_delay", "delaying"}
            => openCount = 0)
    /\ [][openCount' # openCount =>
            \/ openCount' = openCount + 1 /\ logFile'.written = 0
            \/ openCount' = openCount - 1 /\ logFile.written = 1]_vars
    /\ [][logFile.open => logFile'.written \in {logFile.written, 1}]_vars
    /\ ((openCount = 1) ~> (openCount = 0))

HandleWitness ==
    /\ pc = "loop_mirror" /\ openCount = 0
    /\ logFile.written = 1 /\ ~logFile.open

(***************************************************************************)
(* C8: when setup() has finished, the primary transport has shown a line   *)
(* for each of: the clock not running, the card not starting, a sensor     *)
(* channel not starting.                                                   *)
(***************************************************************************)
BootDiagnostics ==
    pc = "setup_done" =>
        /\ ~rtcRunning => "RTC is NOT running!" \in Texts(Primary(bootLog))
        /\ ~sdReady => "initialization failed!" \in Texts(Primary(bootLog))
        /\ beginFailed # {} => Texts(Primary(bootLog)) \ OtherTexts # {}

(***************************************************************************)
(* C9: a cycle prints exactly one line on the dual sink, after the attempt *)
(* to append and before the delay: the record when the record was written  *)
(* to the day's file and the file closed, the diagnostic otherwise.        *)
(***************************************************************************)
PerCycleReporting ==
    /\ pc \in {"loop_clock", "loop_uv", "loop_ir", "loop_lum", "loop_format",
               "loop_open", "loop_write", "loop_close", "loop_mirror", "loop_fail"}
          => cycleLog = << >>
    /\ pc = "loop_mirror" => (appended /\ ~logFile.open /\ openCount = 0)
    /\ pc = "loop_fail" => ~appended
    /\ pc \in {"loop_delay", "delaying"} =>
          /\ Len(cycleLog) = 1
          /\ cycleLog[1].sink = "mySerial"
          /\ cycleLog[1].text = dataString <=> appended
          /\ cycleLog[1].text = "Couldn't access file" <=> ~appended
          /\ appended =>
                /\ Exists(CsvName(fileName))
                /\ Len(files[CsvName(fileName)]) >= 1
                /\ files[CsvName(fileName)][Len(files[CsvName(fileName)])] = dataString
                /\ dataString = DataString(now, uv, tempF, lum)

ReportingWitness ==
    /\ pc = "loop_delay" /\ appended
    /\ cycleLog = << Out("mySerial", dataString) >>
    /\ files[CsvName(fileName)] = << Header, dataString >>

(***************************************************************************)
(* C10: over any number of resets, a header is written only by setup() and *)
(* only to a file it has just created; no file holds two headers, and the  *)
(* lines a file holds are never changed or removed.                        *)
(***************************************************************************)
HeaderIdempotence ==
    /\ [](\A f \in DOMAIN files : HeaderCount(files[f]) <= 1)
    /\ [][\A f \in DOMAIN files :
            f \in DOMAIN files' /\ IsPrefix(files[f], files'[f])]_vars
    /\ [][\A f \in DOMAIN files' :
            (f \in DOMAIN files /\ HeaderCount(files'[f]) > HeaderCount(files[f]))
                => (pc = "setup_write" /\ files[f] = << >> /\ f = CsvName(fileName))]_vars

HeaderIdempotenceWitness ==
    /\ pc = "setup_done" /\ sdReady
    /\ Exists(CsvName(fileName))
    /\ Len(files[CsvName(fileName)]) = 2
    /\ files[CsvName(fileName)][1] = Header
    /\ files[CsvName(fileName)][2] # Header
====
